---- MODULE Spec2Model ----
(***************************************************************************)
(* Model of LuaActorBuilder (src/builder.rs): the fluent configuration     *)
(* value with three hook slots and an optional VM initialization routine,  *)
(* its six hook setters, with_vm, the terminal build(), and the            *)
(* file-reading helper read_to_string.                                     *)
(*                                                                         *)
(* Script texts are sequences of tokens, Option<T> is a sequence of length *)
(* at most one (None == <<>>, Some(x) == <<x>>).  The actor constructor    *)
(* LuaActor::new lives in actor.rs; it is modelled from its description.   *)
(***************************************************************************)
EXTENDS Integers, Sequences, FiniteSets, TLC

VARIABLES
    fs,          \* the file system: what each path names
    builder,     \* Option: the configuration value the chain currently owns
    pc,          \* "start", "configuring", "built" or "panicked"
    ncalls,      \* number of setter calls made so far
    last,        \* the most recent call
    pre,         \* the configuration value the most recent call received
    lastSetter,  \* per field, the most recent call that returned for it
    prevSetter,  \* per field, the call that returned for it before lastSetter
    reads,       \* log of File::open calls, each with the call it ran in
    panicMsg,    \* Option: payload of the panic that ended the chain
    ctorArgs,    \* Option: the arguments build() gave to LuaActor::new
    result,      \* Option: what build() returned
    vmRuns,      \* log of routine invocations
    compiled     \* slots whose text the constructor loaded

vars == <<fs, builder, pc, ncalls, last, pre, lastSetter, prevSetter, reads,
          panicMsg, ctorArgs, result, vmRuns, compiled>>

\* ---------------------------------------------------------------- bounds
MaxCalls == 3

\* ---------------------------------------------------------------- inputs
Slots == {"started", "handle", "stopped"}
Keys == Slots \cup {"initialize_vm"}

None == <<>>
Some(x) == <<x>>

Numbers == {"1", "7", "42"}

\* inline script texts handed to the *_with_lua setters
Scripts == { <<"return">>, <<"return", "1", "+">>, <<"return", "42">> }

\* file names handed to the file setters
Paths == {"a.lua", "b.lua"}

\* what a path may name: nothing, a file that is not valid UTF-8, or text
Files == { [exists |-> FALSE, utf8 |-> FALSE, text |-> <<>>],
           [exists |-> TRUE,  utf8 |-> FALSE, text |-> <<>>],
           [exists |-> TRUE,  utf8 |-> TRUE,  text |-> <<"return", "7">>],
           [exists |-> TRUE,  utf8 |-> TRUE,  text |-> <<"x", "=">>] }

\* callbacks of type InitializeVM: Fn(&Lua) -> Result<(), LuaError>
Routines == {"init_ok", "init_runtime_err", "init_external_err"}

InitializeVM(r) ==
    CASE r = "init_ok"           -> None
      [] r = "init_runtime_err"  -> Some([kind |-> "RuntimeError",  msg |-> "init failed"])
      [] r = "init_external_err" -> Some([kind |-> "ExternalError", msg |-> "init failed"])

\* ---------------------------------------------------------------- helpers
\* &str -> String: a fresh buffer holding a copy of every element
to_string(s) == [i \in 1..Len(s) |-> s[i]]

NoCall == [op |-> "none", slot |-> "", path |-> "", text |-> <<>>, routine |-> ""]

\* ------------------------------------------------- the configuration value
\* variant: the default script misspelt
noop_misspelt == Some(to_string(<<"retrun">>))

\* let noop = Some("return".to_string());
noop == Some(to_string(<<"return">>))

\* Option<String>::clone
clone(o) == IF o = None THEN None ELSE Some(to_string(o[1]))

\* variant: the stopped slot left empty
default_without_stopped ==
    [started       |-> clone(noop),
     handle        |-> clone(noop),
     stopped       |-> None,
     initialize_vm |-> None]

\* impl Default for LuaActorBuilder
default ==
    [started       |-> clone(noop),
     handle        |-> clone(noop),
     stopped       |-> clone(noop),
     initialize_vm |-> None]

\* LuaActorBuilder::new
new == default

\* fn read_to_string(filename): File::open(..).expect("File not found"),
\* then f.read_to_string(&mut body).expect("Failed to read file").
\* `opened` lists the paths handed to File::open; `panic` is the panic
\* payload (expect's message followed by the Debug form of the io::Error).
read_to_string(filename) ==
    LET f == fs[filename] IN
    IF ~f.exists
    THEN [opened |-> <<filename>>, body |-> <<>>,
          panic |-> Some(<<"File not found", "Os", "NotFound">>)]
    ELSE IF ~f.utf8
    THEN [opened |-> <<filename>>, body |-> <<>>,
          panic |-> Some(<<"Failed to read file", "Custom", "InvalidData">>)]
    ELSE [opened |-> <<filename>>, body |-> to_string(f.text), panic |-> None]

\* A setter either returns the updated value (self) or unwinds (panic);
\* `invoked` lists the routines it called on the way (none of them does).
Returned(self, opened) ==
    [self |-> Some(self), opened |-> opened, panic |-> None, invoked |-> <<>>]
Unwound(opened, payload) ==
    [self |-> None, opened |-> opened, panic |-> payload, invoked |-> <<>>]

\* variant: a failed read is swallowed and the slot gets the empty body
on_started_lenient(self, filename) ==
    LET r == read_to_string(filename) IN
    Returned([self EXCEPT !.started = Some(r.body)], r.opened)

on_started(self, filename) ==
    LET r == read_to_string(filename) IN
    IF r.panic # None THEN Unwound(r.opened, r.panic)
    ELSE Returned([self EXCEPT !.started = Some(r.body)], r.opened)

on_started_with_lua(self, script) ==
    Returned([self EXCEPT !.started = Some(to_string(script))], <<>>)

\* variant: the path is kept and nothing is read at the call
on_handle_deferred(self, filename) ==
    Returned([self EXCEPT !.handle = Some(<<filename>>)], <<>>)

on_handle(self, filename) ==
    LET r == read_to_string(filename) IN
    IF r.panic # None THEN Unwound(r.opened, r.panic)
    ELSE Returned([self EXCEPT !.handle = Some(r.body)], r.opened)

\* variant: first write wins, a slot already moved off the default is kept
on_handle_with_lua_first_wins(self, script) ==
    IF self.handle = noop
    THEN Returned([self EXCEPT !.handle = Some(to_string(script))], <<>>)
    ELSE Returned(self, <<>>)

on_handle_with_lua(self, script) ==
    Returned([self EXCEPT !.handle = Some(to_string(script))], <<>>)

on_stopped(self, filename) ==
    LET r == read_to_string(filename) IN
    IF r.panic # None THEN Unwound(r.opened, r.panic)
    ELSE Returned([self EXCEPT !.stopped = Some(r.body)], r.opened)

\* variant: the text is appended to what the slot holds
on_stopped_with_lua_append(self, script) ==
    Returned([self EXCEPT !.stopped = Some(self.stopped[1] \o to_string(script))], <<>>)

on_stopped_with_lua(self, script) ==
    Returned([self EXCEPT !.stopped = Some(to_string(script))], <<>>)

\* variant: the routine is put on a fresh default value
with_vm_on_default(self, callback) ==
    Returned([default EXCEPT !.initialize_vm = Some(callback)], <<>>)

\* variant: the routine is run as soon as it is attached
with_vm_eager(self, callback) ==
    [self |-> Some([self EXCEPT !.initialize_vm = Some(callback)]),
     opened |-> <<>>, panic |-> None, invoked |-> <<callback>>]

\* variant: a routine already attached is kept
with_vm_first_wins(self, callback) ==
    IF self.initialize_vm = None
    THEN Returned([self EXCEPT !.initialize_vm = Some(callback)], <<>>)
    ELSE Returned(self, <<>>)

with_vm(self, callback) ==
    Returned([self EXCEPT !.initialize_vm = Some(callback)], <<>>)

\* ------------------------------------------------- the actor constructor
\* The engine's parser on token sequences: an empty chunk, or `return`
\* optionally followed by  number { "+" number }.
IsExpr(s) ==
    /\ Len(s) % 2 = 1
    /\ \A i \in 1..Len(s) : IF i % 2 = 1 THEN s[i] \in Numbers ELSE s[i] = "+"

Parses(t) ==
    \/ Len(t) = 0
    \/ /\ t[1] = "return"
       /\ \/ Len(t) = 1
          \/ IsExpr(SubSeq(t, 2, Len(t)))

\* the LuaError a hook that fails to load is reported with
ScriptError == [kind |-> "RuntimeError", msg |-> "unexpected symbol"]

SlotOrder == <<"started", "handle", "stopped">>

\* the text the constructor loads for an Option<String> argument
HookText(o) == IF o = None THEN <<"return">> ELSE o[1]

\* LuaActor::new(started, handle, stopped, initialize_vm): on a fresh engine
\* the routine (if any) is invoked once, then the hooks are loaded in slot
\* order; the first failure is returned and no actor is produced.
LuaActor_new(started, handle, stopped, initialize_vm) ==
    LET invoked == IF initialize_vm = None THEN <<>> ELSE <<initialize_vm[1]>>
        init    == IF initialize_vm = None THEN None ELSE InitializeVM(initialize_vm[1])
        hooks   == <<HookText(started), HookText(handle), HookText(stopped)>>
        bad     == {i \in 1..3 : ~Parses(hooks[i])}
        first   == CHOOSE i \in bad : \A j \in bad : i <= j
    IN  IF init # None
        THEN [actor |-> None, err |-> init, invoked |-> invoked, compiled |-> <<>>]
        ELSE IF bad # {}
        THEN [actor |-> None, err |-> Some(ScriptError), invoked |-> invoked,
              compiled |-> SubSeq(SlotOrder, 1, first)]
        ELSE [actor |-> Some([started |-> hooks[1], handle |-> hooks[2],
                              stopped |-> hooks[3], vm |-> invoked]),
              err |-> None, invoked |-> invoked, compiled |-> SlotOrder]

\* variant: handle and stopped handed over in each other's position
build_swapped(self) ==
    LET args == <<clone(self.started), clone(self.stopped), clone(self.handle),
                  self.initialize_vm>>
    IN  [args |-> args, opened |-> <<>>,
         ret |-> LuaActor_new(args[1], args[2], args[3], args[4])]

\* variant: the started text handed over for the handle slot as well
build_started_twice(self) ==
    LET args == <<clone(self.started), clone(self.started), clone(self.stopped),
                  self.initialize_vm>>
    IN  [args |-> args, opened |-> <<>>,
         ret |-> LuaActor_new(args[1], args[2], args[3], args[4])]

\* variant: the routine is not handed over
build_without_vm(self) ==
    LET args == <<clone(self.started), clone(self.handle), clone(self.stopped), None>>
    IN  [args |-> args, opened |-> <<>>,
         ret |-> LuaActor_new(args[1], args[2], args[3], args[4])]

\* LuaActorBuilder::build
build(self) ==
    LET args == <<clone(self.started), clone(self.handle), clone(self.stopped),
                  self.initialize_vm>>
    IN  [args |-> args, opened |-> <<>>,
         ret |-> LuaActor_new(args[1], args[2], args[3], args[4])]

\* ---------------------------------------------------------------- state
Init ==
    /\ fs \in [Paths -> Files]
    /\ builder = None
    /\ pc = "start"
    /\ ncalls = 0
    /\ last = NoCall
    /\ pre = None
    /\ lastSetter = [k \in Keys |-> NoCall]
    /\ prevSetter = [k \in Keys |-> NoCall]
    /\ reads = <<>>
    /\ panicMsg = None
    /\ ctorArgs = None
    /\ result = None
    /\ vmRuns = <<>>
    /\ compiled = <<>>

FileCall(op, slot, p)   == [op |-> op, slot |-> slot, path |-> p, text |-> <<>>, routine |-> ""]
InlineCall(op, slot, t) == [op |-> op, slot |-> slot, path |-> "", text |-> t, routine |-> ""]
VmCall(r)               == [op |-> "with_vm", slot |-> "initialize_vm", path |-> "", text |-> <<>>, routine |-> r]

ReadLog(op, opened) == [i \in 1..Len(opened) |-> [during |-> op, path |-> opened[i]]]

\* one link of the fluent chain: the call consumes the value and either
\* returns the updated value or unwinds out of the chain
Chain(call, out) ==
    /\ ncalls < MaxCalls
    /\ ncalls' = ncalls + 1
    /\ last' = call
    /\ pre' = builder
    /\ reads' = reads \o ReadLog(call.op, out.opened)
    /\ builder' = out.self
    /\ panicMsg' = out.panic
    /\ vmRuns' = vmRuns \o out.invoked
    /\ IF out.panic # None
       THEN /\ pc' = "panicked"
            /\ UNCHANGED <<lastSetter, prevSetter>>
       ELSE /\ pc' = "configuring"
            /\ lastSetter' = [lastSetter EXCEPT ![call.slot] = call]
            /\ prevSetter' = [prevSetter EXCEPT ![call.slot] = lastSetter[call.slot]]
    /\ UNCHANGED <<fs, ctorArgs, result, compiled>>

New ==
    /\ pc = "start"
    /\ builder' = Some(new)
    /\ pc' = "configuring"
    /\ last' = [NoCall EXCEPT !.op = "new"]
    /\ UNCHANGED <<fs, ncalls, pre, lastSetter, prevSetter, reads, panicMsg, ctorArgs, result, vmRuns, compiled>>

OnStarted ==
    /\ pc = "configuring"
    /\ \E p \in Paths : Chain(FileCall("on_started", "started", p), on_started(builder[1], p))

OnStartedWithLua ==
    /\ pc = "configuring"
    /\ \E t \in Scripts :
          Chain(InlineCall("on_started_with_lua", "started", t), on_started_with_lua(builder[1], t))

OnHandle ==
    /\ pc = "configuring"
    /\ \E p \in Paths : Chain(FileCall("on_handle", "handle", p), on_handle(builder[1], p))

OnHandleWithLua ==
    /\ pc = "configuring"
    /\ \E t \in Scripts :
          Chain(InlineCall("on_handle_with_lua", "handle", t), on_handle_with_lua(builder[1], t))

OnStopped ==
    /\ pc = "configuring"
    /\ \E p \in Paths : Chain(FileCall("on_stopped", "stopped", p), on_stopped(builder[1], p))

OnStoppedWithLua ==
    /\ pc = "configuring"
    /\ \E t \in Scripts :
          Chain(InlineCall("on_stopped_with_lua", "stopped", t), on_stopped_with_lua(builder[1], t))

WithVm ==
    /\ pc = "configuring"
    /\ \E r \in Routines : Chain(VmCall(r), with_vm(builder[1], r))

Build ==
    /\ pc = "configuring"
    /\ LET b == build(builder[1]) IN
         /\ ctorArgs' = Some(b.args)
         /\ result' = Some([actor |-> b.ret.actor, err |-> b.ret.err])
         /\ vmRuns' = vmRuns \o b.ret.invoked
         /\ compiled' = b.ret.compiled
         /\ reads' = reads \o ReadLog("build", b.opened)
    /\ builder' = None
    /\ pc' = "built"
    /\ last' = [NoCall EXCEPT !.op = "build"]
    /\ pre' = builder
    /\ UNCHANGED <<fs, ncalls, lastSetter, prevSetter, panicMsg>>

Next ==
    \/ New
    \/ OnStarted
    \/ OnStartedWithLua
    \/ OnHandle
    \/ OnHandleWithLua
    \/ OnStopped
    \/ OnStoppedWithLua
    \/ WithVm
    \/ Build

Spec == Init /\ [][Next]_vars

\* ------------------------------------------------------------ properties
FileOps   == {"on_started", "on_handle", "on_stopped"}
InlineOps == {"on_started_with_lua", "on_handle_with_lua", "on_stopped_with_lua"}

\* argument position of a slot in LuaActor::new
Pos(s) == CASE s = "started" -> 1 [] s = "handle" -> 2 [] s = "stopped" -> 3

Unreadable(p) == ~fs[p].exists \/ ~fs[p].utf8

\* the text the calls made so far ask for in slot s
Configured(s) ==
    LET c == lastSetter[s] IN
    IF c.op \in InlineOps THEN c.text
    ELSE IF c.op \in FileOps THEN fs[c.path].text
    ELSE <<"return">>

\* the routine the calls made so far ask for
ConfiguredVm  == lastSetter["initialize_vm"]
RoutineFails  == ConfiguredVm.op = "with_vm" /\ InitializeVM(ConfiguredVm.routine) # None

\* what slot s holds now, or was handed to the constructor as
Holds(s) == IF pc = "built" THEN ctorArgs[1][Pos(s)] ELSE builder[1][s]

\* C1: when the inline setter on_<s>_with_lua(t) is the last setter applied to
\* slot s, build() hands exactly t to the constructor, in s's own position.
C1_InlineTextVerbatim ==
    pc = "built" =>
        \A s \in Slots :
            lastSetter[s].op \in InlineOps =>
                /\ ctorArgs[1][Pos(s)] = Some(lastSetter[s].text)
                /\ Len(ctorArgs[1]) = 4

C1_Witness ==
    /\ pc = "built"
    /\ lastSetter["handle"].op = "on_handle_with_lua"
    /\ lastSetter["handle"].text = <<"return", "1", "+">>
    /\ lastSetter["stopped"].op = "on_stopped_with_lua"
    /\ lastSetter["stopped"].text = <<"return", "42">>
    /\ prevSetter["handle"].op = "on_handle"
    /\ ctorArgs[1][2] = Some(<<"return", "1", "+">>)
    /\ ctorArgs[1][3] = Some(<<"return", "42">>)

\* C2: last write wins per slot: a file setter followed by the inline setter
\* leaves the inline text, the inline setter followed by a file setter leaves
\* the file's contents, and that is what reaches the constructor.
C2_LastWriteWins ==
    pc \in {"configuring", "built"} =>
        \A s \in Slots :
            /\ (prevSetter[s].op \in FileOps /\ lastSetter[s].op \in InlineOps)
                   => Holds(s) = Some(lastSetter[s].text)
            /\ (prevSetter[s].op \in InlineOps /\ lastSetter[s].op \in FileOps)
                   => Holds(s) = Some(fs[lastSetter[s].path].text)

\* three calls on handle of which one read a file: inline, file, inline
C2_Witness ==
    /\ pc = "built"
    /\ ncalls = 3
    /\ Len(reads) = 1
    /\ \A k \in Keys \ {"handle"} : lastSetter[k].op = "none"
    /\ prevSetter["handle"].op = "on_handle"
    /\ lastSetter["handle"].op = "on_handle_with_lua"
    /\ fs[prevSetter["handle"].path].text = <<"return", "7">>
    /\ ctorArgs[1][2] = Some(<<"return", "42">>)

SomeHookFailsToParse == \E s \in Slots : ~Parses(Configured(s))

C4_RoutineFailureReported ==
    (pc = "built" /\ RoutineFails) =>
        /\ result[1].err = InitializeVM(ConfiguredVm.routine)
        /\ result[1].actor = None

C4_Witness ==
    /\ pc = "built"
    /\ ConfiguredVm.routine = "init_external_err"
    /\ ~SomeHookFailsToParse
    /\ result[1].err # None
    /\ result[1].err[1].kind = "ExternalError"

\* C5: a file setter given a path that is missing or is not valid text ends
\* the chain at that call: no configuration value comes back, no later call
\* runs and build() is never reached.
C5_UnreadableFileEndsChain ==
    /\ (last.op \in FileOps /\ Unreadable(last.path)) => pc = "panicked"
    /\ pc = "panicked" =>
          /\ last.op \in FileOps
          /\ Unreadable(last.path)
          /\ builder = None
          /\ panicMsg # None
          /\ result = None
          /\ ctorArgs = None
          /\ ~ENABLED Next

C5_Witness ==
    /\ pc = "panicked"
    /\ last.op = "on_stopped"
    /\ fs[last.path].exists
    /\ ~fs[last.path].utf8
    /\ ncalls = 2

\* C6 as stated: no file is read during a setter call, reads happen only
\* once build() is invoked.
C6_ReadsOnlyInBuild ==
    \A i \in 1..Len(reads) : reads[i].during = "build"

\* C6 (amended): compilation and the routine are deferred to build(), file
\* reads are not: every file setter call opens its file during the call,
\* and no other call (inline setter, with_vm, build) opens a file.
C6_ReadsInFileSetters ==
    /\ \A i \in 1..Len(reads) : reads[i].during \in FileOps
    /\ Len(reads) <= ncalls
    /\ last.op \in FileOps =>
          /\ Len(reads) >= 1
          /\ reads[Len(reads)] = [during |-> last.op, path |-> last.path]
    /\ \A s \in Slots :
          (pc = "configuring" /\ lastSetter[s].op \in FileOps)
              => builder[1][s] = Some(fs[lastSetter[s].path].text)
    /\ pc # "built" => (compiled = <<>> /\ vmRuns = <<>> /\ result = None)

C6_Witness ==
    /\ pc = "configuring"
    /\ last.op = "on_handle"
    /\ Len(reads) = 2
    /\ reads[1].during = "on_started"
    /\ builder[1].handle = Some(<<"x", "=">>)
    /\ compiled = <<>>

\* C7: new() returns a value whose three slots hold "return" and whose
\* routine is absent, and it cannot fail.
C7_NewIsAllDefault ==
    /\ pc = "start" => ENABLED New
    /\ last.op = "new" =>
          /\ pc = "configuring"
          /\ panicMsg = None
          /\ builder = Some([started       |-> Some(<<"return">>),
                             handle        |-> Some(<<"return">>),
                             stopped       |-> Some(<<"return">>),
                             initialize_vm |-> None])

C7_Witness ==
    /\ last.op = "new"
    /\ pc = "configuring"
    /\ builder[1].initialize_vm = None

Unset(s) == lastSetter[s].op = "none"

\* C8 as stated: whatever subset of slots is left unset, build() without a
\* failing routine succeeds and the unset slots reach the constructor as "return".
C8_UnsetSlotsBuildSucceeds ==
    (pc = "built" /\ ~RoutineFails) =>
        /\ result[1].actor # None
        /\ \A s \in Slots : Unset(s) => ctorArgs[1][Pos(s)] = Some(<<"return">>)

\* C8 (amended): every unset slot reaches the constructor as "return", and
\* build() without a failing routine succeeds when the text of every slot
\* that was set parses; so it does when no slot is set, or all hold "return".
C8_UnsetSlotsAreNoop ==
    pc = "built" =>
        /\ \A s \in Slots : Unset(s) => ctorArgs[1][Pos(s)] = Some(<<"return">>)
        /\ (~RoutineFails /\ \A s \in Slots : Unset(s) \/ Parses(Configured(s))) =>
              /\ result[1].err = None
              /\ result[1].actor # None
              /\ \A s \in Slots : result[1].actor[1][s] = Configured(s)

C8_Witness ==
    /\ pc = "built"
    /\ \A s \in Slots : Unset(s)
    /\ ConfiguredVm.routine = "init_ok"
    /\ result[1].actor # None
    /\ result[1].actor[1].handle = <<"return">>

SetterOps == FileOps \cup InlineOps \cup {"with_vm"}

\* C9: a setter that returns leaves every field but its own as it received
\* them: the other two hook slots and the routine for a hook setter, the
\* three hook slots for with_vm.
C9_SetterFrame ==
    (pc = "configuring" /\ last.op \in SetterOps) =>
        \A k \in Keys \ {last.slot} : builder[1][k] = pre[1][k]

C9_Witness ==
    /\ pc = "configuring"
    /\ last.op = "with_vm"
    /\ ncalls = 3
    /\ builder[1].started = Some(<<"return", "7">>)
    /\ builder[1].stopped = Some(<<"return", "42">>)
    /\ pre[1].initialize_vm = None

\* every call the chain can make
Calls ==
    {FileCall("on_started", "started", p) : p \in Paths}
    \cup {FileCall("on_handle", "handle", p) : p \in Paths}
    \cup {FileCall("on_stopped", "stopped", p) : p \in Paths}
    \cup {InlineCall("on_started_with_lua", "started", t) : t \in Scripts}
    \cup {InlineCall("on_handle_with_lua", "handle", t) : t \in Scripts}
    \cup {InlineCall("on_stopped_with_lua", "stopped", t) : t \in Scripts}
    \cup {VmCall(r) : r \in Routines}

Run(c, self) ==
    CASE c.op = "on_started"          -> on_started(self, c.path)
      [] c.op = "on_started_with_lua" -> on_started_with_lua(self, c.text)
      [] c.op = "on_handle"           -> on_handle(self, c.path)
      [] c.op = "on_handle_with_lua"  -> on_handle_with_lua(self, c.text)
      [] c.op = "on_stopped"          -> on_stopped(self, c.path)
      [] c.op = "on_stopped_with_lua" -> on_stopped_with_lua(self, c.text)
      [] c.op = "with_vm"             -> with_vm(self, c.routine)

\* the value (if any) that comes back from call c on the value (if any) o
Apply(c, o) == IF o = None THEN None ELSE Run(c, o[1]).self

\* C10: the call just made commutes with every call on another field (made
\* before it instead of after it, the value is the same), and making it a
\* second time changes nothing.
C10_CommutativeIdempotent ==
    last.op \in SetterOps =>
        /\ \A c \in Calls :
              c.slot # last.slot => Apply(c, builder) = Apply(last, Apply(c, pre))
        /\ Apply(last, builder) = builder

C10_Witness ==
    /\ pc = "configuring"
    /\ last.op = "on_stopped_with_lua"
    /\ last.text = <<"return", "42">>
    /\ pre[1].stopped = Some(<<"return", "1", "+">>)
    /\ pre[1].initialize_vm = Some("init_runtime_err")
    /\ builder[1].stopped = Some(<<"return", "42">>)

\* C11: with_vm is last-call-wins: the value holds the routine of the most
\* recent with_vm call and no other, build() hands that one to the
\* constructor, and without a with_vm call the constructor gets no routine.
C11_WithVmLastCallWins ==
    pc \in {"configuring", "built"} =>
        LET held == IF pc = "built" THEN ctorArgs[1][4] ELSE builder[1].initialize_vm
        IN  /\ Len(held) <= 1
            /\ held = IF ConfiguredVm.op = "with_vm"
                      THEN Some(ConfiguredVm.routine)
                      ELSE None

C11_Witness ==
    /\ pc = "built"
    /\ prevSetter["initialize_vm"].op = "with_vm"
    /\ prevSetter["initialize_vm"].routine = "init_external_err"
    /\ ConfiguredVm.routine = "init_ok"
    /\ ctorArgs[1][4] = Some("init_ok")
    /\ result[1].actor # None

\* C13: when a file setter panics because its file is missing, the panic
\* payload contains the path that was passed to the setter.
C13_DiagnosticNamesFile ==
    (pc = "panicked" /\ ~fs[last.path].exists) =>
        \E i \in 1..Len(panicMsg[1]) : panicMsg[1][i] = last.path

\* C14: in every state of the chain each of the three slots holds a text,
\* never None; build() hands no None hook text to the constructor, so the
\* constructor's substitution of a default is never used.
C14_SlotsAlwaysHoldText ==
    /\ pc = "configuring" =>
          \A s \in Slots : builder[1][s] # None /\ Len(builder[1][s]) = 1
    /\ pc = "built" =>
          \A s \in Slots :
              /\ ctorArgs[1][Pos(s)] # None
              /\ HookText(ctorArgs[1][Pos(s)]) = ctorArgs[1][Pos(s)][1]

C14_Witness ==
    /\ pc = "built"
    /\ Unset("started")
    /\ lastSetter["handle"].op = "on_handle"
    /\ lastSetter["stopped"].op = "on_stopped_with_lua"
    /\ ConfiguredVm.op = "with_vm"
    /\ \A s \in Slots : ctorArgs[1][Pos(s)] # None

\* the calls that opened a path
ReadOf(op, p) == \E i \in 1..Len(reads) : reads[i] = [during |-> op, path |-> p]

\* C15: a file setter reads its file at the call, also when the slot is
\* overwritten afterwards: a slot now holding inline text that was set from a
\* file before had that file read, and a chain that called a file setter on a
\* missing or unreadable file ended at that call; such a file is harmless
\* only while no setter is called on it.
C15_OverwrittenFileWasRead ==
    /\ \A s \in Slots :
          (lastSetter[s].op \in InlineOps /\ prevSetter[s].op \in FileOps) =>
              /\ ReadOf(prevSetter[s].op, prevSetter[s].path)
              /\ ~Unreadable(prevSetter[s].path)
    /\ \A i \in 1..Len(reads) :
          Unreadable(reads[i].path) =>
              /\ pc = "panicked"
              /\ i = Len(reads)
              /\ last.op = reads[i].during
              /\ last.path = reads[i].path
    /\ (last.op \in FileOps /\ Unreadable(last.path)) =>
          /\ ReadOf(last.op, last.path)
          /\ ~ENABLED (OnStartedWithLua \/ OnHandleWithLua \/ OnStoppedWithLua)

C15_Witness ==
    /\ pc = "panicked"
    /\ last.op = "on_handle"
    /\ ~fs[last.path].exists
    /\ ncalls = 1
    /\ reads = <<[during |-> "on_handle", path |-> last.path]>>
    /\ ~ENABLED OnHandleWithLua

\* C16: the builder never runs the routine: nothing is invoked and nothing
\* is handed to the constructor before build(); build() hands over the
\* routine the value holds, once, and the value is gone afterwards; the only
\* invocation is the constructor's, at most one, of that routine, so a
\* routine replaced by a later with_vm call is never invoked.
C16_RoutineOnlyRunsInConstruction ==
    /\ pc # "built" => (vmRuns = <<>> /\ ctorArgs = None)
    /\ pc = "built" =>
          /\ ctorArgs[1][4] = pre[1].initialize_vm
          /\ vmRuns = ctorArgs[1][4]
          /\ Len(vmRuns) <= 1
          /\ builder = None
          /\ ~ENABLED Build
          /\ ~ENABLED WithVm

C16_Witness ==
    /\ pc = "built"
    /\ ncalls = 3
    /\ prevSetter["initialize_vm"].routine = "init_runtime_err"
    /\ ConfiguredVm.routine = "init_ok"
    /\ lastSetter["started"].op = "on_started_with_lua"
    /\ vmRuns = <<"init_ok">>

====
